---- MODULE Spec2Model ----
(***************************************************************************)
(* MemeGen AI: the annotation store of App (texts, selectedTextId), the    *)
(* drag handlers of MemeCanvas, the image-changing handlers, the AI        *)
(* handlers and the exporter handleDownload.                               *)
(*                                                                         *)
(* React hook state is modelled by one variable per useState/useRef.       *)
(* Handlers are closures created by a render: they read the values of the  *)
(* render that created them (variable view), while functional updates      *)
(* (setTexts(prev => ...)) and refs read the current value.  Discrete      *)
(* events (mousedown, mouseup, click, change) are flushed by React before  *)
(* the next event, so their actions end with the re-render; continuous     *)
(* events (mousemove, mouseleave) and asynchronous completions             *)
(* (FileReader.onload, promise continuations) are rendered by a later      *)
(* scheduler task, the action Render.                                      *)
(***************************************************************************)
EXTENDS Integers, Sequences, FiniteSets, TLC

VARIABLES
    image,          \* useState<string>: base image reference
    texts,          \* useState<MemeText[]>
    selectedTextId, \* useState<string | null>
    captions,       \* useState<string[]>
    isProcessing,   \* useState(false)
    mode,           \* useState<AppMode>
    editPrompt,     \* useState('')
    isDragging,     \* MemeCanvas useState(false)
    dragStartRef,   \* MemeCanvas useRef: last pointer position or Null
    view,           \* hook values captured by the handlers of the last render
    now,            \* Date.now()
    ptr,            \* mouse button phase inside the canvas container
    reading,        \* files handed to FileReader.readAsDataURL, not yet loaded
    requests,       \* AI handler invocations awaiting their collaborator
    alerts,         \* number of alert() notices raised by the last event
    download,       \* file offered by the last event, when it was an export
    sess,           \* history: the drag session opened by the last mousedown on a text
    last,           \* history: the last event handled
    fuel            \* remaining number of events of each bounded kind

vars == <<image, texts, selectedTextId, captions, isProcessing, mode, editPrompt,
          isDragging, dragStartRef, view, now, ptr, reading, requests, alerts,
          download, sess, last, fuel>>

----------------------------------------------------------------------------
(* Bounds of the model *)

MaxTexts == 2
MaxClock == 1
Budget == 1
FontBudget == 8
DragBudget == 2
AiBudget == 2

----------------------------------------------------------------------------
(* Program constants *)

Null == "null"

MinFontSize == 12
MaxFontSize == 120
FontStep == 4
DefaultX == 400
DefaultY == 300
DefaultFontSize == 40
DefaultColor == "#FFFFFF"
DefaultContent == "DOUBLE TAP TO EDIT"
InitialImage == "https://picsum.photos/800/600"

Min(a, b) == IF a < b THEN a ELSE b
Max(a, b) == IF a > b THEN a ELSE b

TEMPLATES == << "https://picsum.photos/id/1/800/600",
                "https://picsum.photos/id/20/800/800",
                "https://picsum.photos/id/30/800/600",
                "https://picsum.photos/id/40/800/600" >>

CAPTION == "CAPTION"

(* Inputs of the environment *)
DownPoints == { <<300, 150>> }                            \* clientX, clientY of a press
Points == { <<310, 150>>, <<305, 155>>, <<0, 0>> }       \* of a move
TemplateChoices == { 1, 2 }                               \* templates clicked
Files == { "data:image/png;base64,FILE" }                 \* FileReader results
Suggestions == << "cap1", "cap2", "cap3" >>               \* a caption list
SuggestionChoices == { 2 }                                \* suggestions clicked
TypedContent == { "typed" }                               \* text input values
PickedColors == { "#FF0000" }                             \* color input values
TypedPrompts == { "", "retro" }                           \* edit prompt values
AiImage == "data:image/png;base64,AI"                     \* editImageWithAI result

----------------------------------------------------------------------------
(* The annotation store: addText, updateText, removeText (App) *)

\* Date.now().toString()
NewId(t) == ToString(t)

\* the object literal newText of addText
NewText(initialContent, t) ==
    [ id |-> NewId(t), content |-> initialContent,
      x |-> DefaultX, y |-> DefaultY,
      fontSize |-> DefaultFontSize, color |-> DefaultColor ]

\* faulty variant of AppendText: the new annotation is put in front
PrependText(prev, newText) == << newText >> \o prev

\* setTexts(prev => [...prev, newText])
AppendText(prev, newText) == Append(prev, newText)

\* { ...t, ...updates }
Spread(t, updates) ==
    [ f \in DOMAIN t |-> IF f \in DOMAIN updates THEN updates[f] ELSE t[f] ]

\* prev.map(t => t.id === id ? { ...t, ...updates } : t)
MapUpdate(prev, id, updates) ==
    [ i \in 1..Len(prev) |->
        IF prev[i].id = id THEN Spread(prev[i], updates) ELSE prev[i] ]

\* prev.filter(t => t.id !== id)
FilterOut(prev, id) == SelectSeq(prev, LAMBDA t : t.id # id)

\* texts.find(t => t.id === id): index of the first match, 0 when undefined
FindIndex(ts, id) ==
    IF \E i \in 1..Len(ts) : ts[i].id = id
    THEN CHOOSE i \in 1..Len(ts) :
            /\ ts[i].id = id
            /\ \A j \in 1..(i - 1) : ts[j].id # id
    ELSE 0

\* faulty variant of StepDown: the decrement without Math.max
StepDownUnclamped(fontSize) == fontSize - FontStep

\* the A+ and A- expressions of MemeCanvas
StepUp(fontSize) == Min(MaxFontSize, fontSize + FontStep)
StepDown(fontSize) == Max(MinFontSize, fontSize - FontStep)

----------------------------------------------------------------------------
(* Rendering *)

\* the hook values a render hands to the handlers it creates
Snapshot(im, ts, sel, caps, proc, ep, drag) ==
    [ image |-> im, texts |-> ts, selectedTextId |-> sel, captions |-> caps,
      isProcessing |-> proc, editPrompt |-> ep, isDragging |-> drag ]

Current ==
    Snapshot(image, texts, selectedTextId, captions, isProcessing, editPrompt,
             isDragging)

\* the re-render that React performs before the next event after a discrete one
Flush ==
    view' = Snapshot(image', texts', selectedTextId', captions', isProcessing',
                     editPrompt', isDragging')

NullRef == << >>                     \* dragStartRef.current === null
NoDownload == [ made |-> FALSE ]
NoSess == [ open |-> FALSE ]
Ev(op, arg) == [ op |-> op, arg |-> arg ]
Idle == [ phase |-> "up", target |-> "none", id |-> Null ]
Pressed(target, id) == [ phase |-> "down", target |-> target, id |-> id ]

\* the run has a budget and every bounded kind of event a cost
Costs(move, font, edit, img, ai, export) ==
    [ move |-> move, font |-> font, edit |-> edit, img |-> img, ai |-> ai,
      export |-> export ]

Fuel(budget, cost) == [ left |-> budget, cost |-> cost ]

Afford(kind) == fuel.left >= fuel.cost[kind]
Burn(kind) == fuel' = [ fuel EXCEPT !.left = @ - fuel.cost[kind] ]

----------------------------------------------------------------------------
(* Initial state: the useState/useRef initial values of App and MemeCanvas *)

InitWith(f) ==
    /\ image = InitialImage
    /\ texts = << >>
    /\ selectedTextId = Null
    /\ captions = << >>
    /\ isProcessing = FALSE
    /\ mode = CAPTION
    /\ editPrompt = ""
    /\ isDragging = FALSE
    /\ dragStartRef = NullRef
    /\ view = Snapshot(InitialImage, << >>, Null, << >>, FALSE, "", FALSE)
    /\ now = 0
    /\ ptr = Idle
    /\ reading = {}
    /\ requests = [ caption |-> 0, edit |-> 0 ]
    /\ alerts = 0
    /\ download = NoDownload
    /\ sess = NoSess
    /\ last = Ev("init", Null)
    /\ fuel = f

Init == InitWith(Fuel(Budget, Costs(1, 1, 1, 1, 1, 1)))

\* a budget spent on pointer moves and exports
InitDrag ==
    InitWith(Fuel(DragBudget,
                  Costs(1, DragBudget, DragBudget, DragBudget, DragBudget, 1)))

\* a budget spent on AI requests
InitAi ==
    InitWith(Fuel(AiBudget,
                  Costs(AiBudget, AiBudget, AiBudget, AiBudget, 1, AiBudget)))

\* a budget that allows a walk from the default font size to the lower bound
InitFont == InitWith(Fuel(FontBudget, Costs(7, 1, 7, 7, 8, 7)))

----------------------------------------------------------------------------
(* Environment steps *)

\* the milliseconds the clock may have advanced since the last Date.now()
Elapsed == { dt \in 0..MaxClock : now + dt <= MaxClock }

\* the scheduled re-render after a continuous event or an asynchronous update
Render ==
    /\ view # Current
    /\ ptr.phase # "click"
    /\ view' = Current
    /\ last' = Ev("render", Null)
    /\ download' = NoDownload
    /\ alerts' = 0
    /\ UNCHANGED <<image, texts, selectedTextId, captions, isProcessing, mode,
                   editPrompt, isDragging, dragStartRef, now, ptr, reading,
                   requests, sess, fuel>>

----------------------------------------------------------------------------
(* Toolbar: Add Text, caption suggestions, content and color inputs *)

\* addText(initialContent)
addText(initialContent, t) ==
    /\ texts' = AppendText(texts, NewText(initialContent, t))
    /\ selectedTextId' = NewText(initialContent, t).id

\* updateText(id, updates)
updateText(id, updates) ==
    texts' = MapUpdate(texts, id, updates)

\* removeText(id); selectedTextId is the value of the render
removeText(id) ==
    /\ texts' = FilterOut(texts, id)
    /\ selectedTextId' = IF view.selectedTextId = id THEN Null ELSE selectedTextId

AddTextClick(dt) ==
    /\ ptr.phase = "up"
    /\ Len(texts) < MaxTexts
    /\ now' = now + dt
    /\ addText(DefaultContent, now + dt)
    /\ sess' = NoSess
    /\ last' = Ev("addText", DefaultContent)
    /\ download' = NoDownload
    /\ alerts' = 0
    /\ UNCHANGED <<image, captions, isProcessing, mode, editPrompt, isDragging,
                   dragStartRef, ptr, reading, requests,
                   fuel>>
    /\ Flush

\* the suggestions panel is rendered under this condition
PanelShown ==
    /\ Len(view.captions) > 0 \/ view.isProcessing
    /\ mode = CAPTION

SuggestionClick(k, dt) ==
    /\ ptr.phase = "up"
    /\ PanelShown
    /\ k \in 1..Len(view.captions)
    /\ Len(texts) < MaxTexts
    /\ now' = now + dt
    /\ addText(view.captions[k], now + dt)
    /\ sess' = NoSess
    /\ last' = Ev("suggestion", view.captions[k])
    /\ download' = NoDownload
    /\ alerts' = 0
    /\ UNCHANGED <<image, captions, isProcessing, mode, editPrompt, isDragging,
                   dragStartRef, ptr, reading, requests,
                   fuel>>
    /\ Flush

ClosePanel ==
    /\ ptr.phase = "up"
    /\ PanelShown
    /\ captions' = << >>
    /\ sess' = NoSess
    /\ last' = Ev("closePanel", Null)
    /\ download' = NoDownload
    /\ alerts' = 0
    /\ UNCHANGED <<image, texts, selectedTextId, isProcessing, mode, editPrompt,
                   isDragging, dragStartRef, now, ptr, reading, requests, fuel>>
    /\ Flush

ContentChange(v) ==
    /\ ptr.phase = "up"
    /\ view.selectedTextId # Null
    /\ Afford("edit")
    /\ Burn("edit")
    /\ updateText(view.selectedTextId, [ content |-> v ])
    /\ sess' = NoSess
    /\ last' = Ev("content", Null)
    /\ download' = NoDownload
    /\ alerts' = 0
    /\ UNCHANGED <<image, selectedTextId, captions, isProcessing, mode,
                   editPrompt, isDragging, dragStartRef, now, ptr, reading,
                   requests>>
    /\ Flush

ColorChange(v) ==
    /\ ptr.phase = "up"
    /\ view.selectedTextId # Null
    /\ Afford("edit")
    /\ Burn("edit")
    /\ updateText(view.selectedTextId, [ color |-> v ])
    /\ sess' = NoSess
    /\ last' = Ev("color", Null)
    /\ download' = NoDownload
    /\ alerts' = 0
    /\ UNCHANGED <<image, selectedTextId, captions, isProcessing, mode,
                   editPrompt, isDragging, dragStartRef, now, ptr, reading,
                   requests>>
    /\ Flush

----------------------------------------------------------------------------
(* MemeCanvas: pointer handlers *)

\* history: a session opens when the pressed annotation is in the store
OpenSess(id, p) ==
    IF FindIndex(texts, id) = 0 THEN NoSess
    ELSE [ open |-> TRUE, id |-> id,
           x0 |-> texts[FindIndex(texts, id)].x,
           y0 |-> texts[FindIndex(texts, id)].y,
           px |-> p[1], py |-> p[2], sx |-> 0, sy |-> 0,
           moves |-> 0, ended |-> FALSE, at |-> texts ]

\* history: a pointermove of the session adds its delta
MoveSess(p) ==
    IF sess.open /\ ~sess.ended
    THEN [ sess EXCEPT !.sx = @ + (p[1] - sess.px), !.sy = @ + (p[2] - sess.py),
                       !.px = p[1], !.py = p[2], !.moves = @ + 1 ]
    ELSE NoSess

EndSess == IF sess.open /\ ~sess.ended THEN [ sess EXCEPT !.ended = TRUE ] ELSE NoSess

\* faulty variant of handleMouseDown: the press moves the annotation under the pointer
handleMouseDownSnap(id, p) ==
    /\ selectedTextId' = id
    /\ isDragging' = TRUE
    /\ dragStartRef' = p
    /\ texts' = MapUpdate(texts, id, [ x |-> p[1], y |-> p[2] ])

\* handleMouseDown(e, id): it calls onSelectText, setIsDragging and writes the ref
handleMouseDown(id, p) ==
    /\ selectedTextId' = id
    /\ isDragging' = TRUE
    /\ dragStartRef' = p
    /\ texts' = texts

\* onMouseDown of the div of the i-th rendered annotation
MouseDownText(i, p) ==
    /\ ptr.phase = "up"
    /\ i \in 1..Len(view.texts)
    /\ handleMouseDown(view.texts[i].id, p)
    /\ ptr' = Pressed("text", view.texts[i].id)
    /\ sess' = OpenSess(view.texts[i].id, p)
    /\ last' = Ev("mouseDownText", view.texts[i].id)
    /\ download' = NoDownload
    /\ alerts' = 0
    /\ UNCHANGED <<image, captions, isProcessing, mode, editPrompt, now,
                   reading, requests, fuel>>
    /\ Flush

\* onMouseDown of the div of the i-th rendered annotation for a further mouse
\* button, pressed while a button is held down
MouseDownOther(i, p) ==
    /\ ptr.phase = "down"
    /\ i \in 1..Len(view.texts)
    /\ Afford("move")
    /\ Burn("move")
    /\ handleMouseDown(view.texts[i].id, p)
    /\ last' = Ev("mouseDownOther", view.texts[i].id)
    /\ download' = NoDownload
    /\ alerts' = 0
    /\ UNCHANGED <<image, captions, isProcessing, mode, editPrompt, now, ptr,
                   reading, requests, sess>>
    /\ Flush

\* the controls are rendered for the annotations with the selected id
ControlsShown(i) ==
    /\ i \in 1..Len(view.texts)
    /\ view.selectedTextId = view.texts[i].id

\* mousedown on the delete button: no handler of its own, bubbles to the div
MouseDownDelete(i, p) ==
    /\ ptr.phase = "up"
    /\ ControlsShown(i)
    /\ handleMouseDown(view.texts[i].id, p)
    /\ ptr' = Pressed("delete", view.texts[i].id)
    /\ sess' = OpenSess(view.texts[i].id, p)
    /\ last' = Ev("mouseDownDelete", view.texts[i].id)
    /\ download' = NoDownload
    /\ alerts' = 0
    /\ UNCHANGED <<image, captions, isProcessing, mode, editPrompt, now,
                   reading, requests, fuel>>
    /\ Flush

\* onMouseDown of the A+ button
MouseDownPlus(i) ==
    /\ ptr.phase = "up"
    /\ ControlsShown(i)
    /\ Afford("font")
    /\ Burn("font")
    /\ updateText(view.texts[i].id, [ fontSize |-> StepUp(view.texts[i].fontSize) ])
    /\ ptr' = Pressed("plus", view.texts[i].id)
    /\ sess' = NoSess
    /\ last' = [ op |-> "plus", arg |-> Null, id |-> view.texts[i].id,
                  read |-> view.texts[i].fontSize ]
    /\ download' = NoDownload
    /\ alerts' = 0
    /\ UNCHANGED <<image, selectedTextId, captions, isProcessing, mode,
                   editPrompt, isDragging, dragStartRef, now, reading, requests>>
    /\ Flush

\* onMouseDown of the A- button
MouseDownMinus(i) ==
    /\ ptr.phase = "up"
    /\ ControlsShown(i)
    /\ Afford("font")
    /\ Burn("font")
    /\ updateText(view.texts[i].id, [ fontSize |-> StepDown(view.texts[i].fontSize) ])
    /\ ptr' = Pressed("minus", view.texts[i].id)
    /\ sess' = NoSess
    /\ last' = [ op |-> "minus", arg |-> Null, id |-> view.texts[i].id,
                  read |-> view.texts[i].fontSize ]
    /\ download' = NoDownload
    /\ alerts' = 0
    /\ UNCHANGED <<image, selectedTextId, captions, isProcessing, mode,
                   editPrompt, isDragging, dragStartRef, now, reading, requests>>
    /\ Flush

\* mousedown on the image or the empty container area: no handler
MouseDownEmpty ==
    /\ ptr.phase = "up"
    /\ ptr' = Pressed("empty", Null)
    /\ sess' = NoSess
    /\ last' = Ev("mouseDownEmpty", Null)
    /\ download' = NoDownload
    /\ alerts' = 0
    /\ UNCHANGED <<image, texts, selectedTextId, captions, isProcessing, mode,
                   editPrompt, isDragging, dragStartRef, view, now, reading,
                   requests, fuel>>

\* the guard of handleMouseMove
MoveGuard ==
    /\ view.isDragging
    /\ view.selectedTextId # Null
    /\ dragStartRef # NullRef

\* handleMouseMove past its guard; text is found in the texts of the render
handleMouseMove(p) ==
    LET dx == p[1] - dragStartRef[1]
        dy == p[2] - dragStartRef[2]
        k  == FindIndex(view.texts, view.selectedTextId)
    IN  /\ texts' = IF k # 0
                    THEN MapUpdate(texts, view.selectedTextId,
                                   [ x |-> view.texts[k].x + dx,
                                     y |-> view.texts[k].y + dy ])
                    ELSE texts
        /\ dragStartRef' = p

\* onMouseMove of the container while a drag is in progress
MouseMoveDrag(p) ==
    /\ ptr.phase # "click"
    /\ MoveGuard
    /\ Afford("move")
    /\ Burn("move")
    /\ handleMouseMove(p)
    /\ sess' = MoveSess(p)
    /\ last' = Ev("mouseMove", Null)
    /\ download' = NoDownload
    /\ alerts' = 0
    /\ UNCHANGED <<image, selectedTextId, captions, isProcessing, mode,
                   editPrompt, isDragging, view, now, ptr, reading, requests>>

\* onMouseMove of the container when handleMouseMove returns at its guard
MouseMoveIdle ==
    /\ ptr.phase # "click"
    /\ ~MoveGuard
    /\ Afford("move")
    /\ Burn("move")
    /\ sess' = NoSess
    /\ last' = Ev("mouseMoveIdle", Null)
    /\ download' = NoDownload
    /\ alerts' = 0
    /\ UNCHANGED <<image, texts, selectedTextId, captions, isProcessing, mode,
                   editPrompt, isDragging, dragStartRef, view, now, ptr,
                   reading, requests>>

\* faulty variant of handleMouseUp: the last pointer position is kept
handleMouseUpKeepsRef ==
    /\ isDragging' = FALSE
    /\ dragStartRef' = dragStartRef

\* handleMouseUp
handleMouseUp ==
    /\ isDragging' = FALSE
    /\ dragStartRef' = NullRef

\* onMouseUp of the container; the browser then dispatches the click
MouseUp ==
    /\ ptr.phase = "down"
    /\ handleMouseUp
    /\ ptr' = [ ptr EXCEPT !.phase = "click" ]
    /\ sess' = EndSess
    /\ last' = Ev("mouseUp", Null)
    /\ download' = NoDownload
    /\ alerts' = 0
    /\ UNCHANGED <<image, texts, selectedTextId, captions, isProcessing, mode,
                   editPrompt, now, reading, requests, fuel>>
    /\ Flush

\* onMouseLeave of the container; the release happens outside, no click follows
MouseLeave ==
    /\ ptr.phase = "down"
    /\ handleMouseUp
    /\ ptr' = Idle
    /\ sess' = EndSess
    /\ last' = Ev("mouseLeave", Null)
    /\ download' = NoDownload
    /\ alerts' = 0
    /\ UNCHANGED <<image, texts, selectedTextId, captions, isProcessing, mode,
                   editPrompt, view, now, reading, requests,
                   fuel>>

\* the delete button under the pointer is still rendered
DeleteShown ==
    /\ ptr.target = "delete"
    /\ view.selectedTextId = ptr.id
    /\ FindIndex(view.texts, ptr.id) # 0

\* onClick of the delete button: stopPropagation, onRemoveText(text.id)
ClickDelete ==
    /\ ptr.phase = "click"
    /\ DeleteShown
    /\ removeText(ptr.id)
    /\ ptr' = Idle
    /\ sess' = NoSess
    /\ last' = Ev("delete", Null)
    /\ download' = NoDownload
    /\ alerts' = 0
    /\ UNCHANGED <<image, captions, isProcessing, mode, editPrompt, isDragging,
                   dragStartRef, now, reading, requests, fuel>>
    /\ Flush

\* onClick of the delete button of the i-th rendered annotation, activated
\* from the keyboard (the button has the focus; no mouse event is involved)
KeyDelete(i) ==
    /\ ptr.phase = "up"
    /\ ControlsShown(i)
    /\ removeText(view.texts[i].id)
    /\ sess' = NoSess
    /\ last' = Ev("delete", Null)
    /\ download' = NoDownload
    /\ alerts' = 0
    /\ UNCHANGED <<image, captions, isProcessing, mode, editPrompt, isDragging,
                   dragStartRef, now, ptr, reading, requests, fuel>>
    /\ Flush

\* a click anywhere else bubbles to the container: onClick={() => onSelectText(null)}
ClickContainer ==
    /\ ptr.phase = "click"
    /\ ~DeleteShown
    /\ selectedTextId' = Null
    /\ ptr' = Idle
    /\ sess' = NoSess
    /\ last' = Ev("click", ptr.target)
    /\ download' = NoDownload
    /\ alerts' = 0
    /\ UNCHANGED <<image, texts, captions, isProcessing, mode, editPrompt,
                   isDragging, dragStartRef, now, reading, requests, fuel>>
    /\ Flush

----------------------------------------------------------------------------
(* Sidebar: source image *)

\* handleFileUpload: the file is handed to reader.readAsDataURL
UploadChange(f) ==
    /\ ptr.phase = "up"
    /\ Afford("img")
    /\ Burn("img")
    /\ reading' = reading \cup {f}
    /\ sess' = NoSess
    /\ last' = Ev("upload", Null)
    /\ download' = NoDownload
    /\ alerts' = 0
    /\ UNCHANGED <<image, texts, selectedTextId, captions, isProcessing, mode,
                   editPrompt, isDragging, dragStartRef, view, now, ptr,
                   requests>>

\* reader.onload
ReaderOnload(f) ==
    /\ ptr.phase # "click"
    /\ f \in reading
    /\ reading' = reading \ {f}
    /\ image' = f
    /\ texts' = << >>
    /\ captions' = << >>
    /\ sess' = NoSess
    /\ last' = Ev("onload", Null)
    /\ download' = NoDownload
    /\ alerts' = 0
    /\ UNCHANGED <<selectedTextId, isProcessing, mode, editPrompt, isDragging,
                   dragStartRef, view, now, ptr, requests,
                   fuel>>

\* onClick={() => setImage(t.url)}
TemplateClick(k) ==
    /\ ptr.phase = "up"
    /\ k \in 1..Len(TEMPLATES)
    /\ Afford("img")
    /\ Burn("img")
    /\ image' = TEMPLATES[k]
    /\ sess' = NoSess
    /\ last' = Ev("template", Null)
    /\ download' = NoDownload
    /\ alerts' = 0
    /\ UNCHANGED <<texts, selectedTextId, captions, isProcessing, mode,
                   editPrompt, isDragging, dragStartRef, now, ptr, reading,
                   requests>>
    /\ Flush

\* `https://picsum.photos/seed/${Date.now()}/800/600`
RandomUrl(t) == "https://picsum.photos/seed/" \o ToString(t) \o "/800/600"

RandomClick(dt) ==
    /\ ptr.phase = "up"
    /\ Afford("img")
    /\ Burn("img")
    /\ now' = now + dt
    /\ image' = RandomUrl(now + dt)
    /\ sess' = NoSess
    /\ last' = Ev("random", Null)
    /\ download' = NoDownload
    /\ alerts' = 0
    /\ UNCHANGED <<texts, selectedTextId, captions, isProcessing, mode,
                   editPrompt, isDragging, dragStartRef, ptr, reading,
                   requests>>
    /\ Flush

----------------------------------------------------------------------------
(* Sidebar: AI tools *)

\* editPrompt.trim() is not empty
HasPrompt(s) == s \notin { "", " " }

\* the Button component: it takes clicks unless it is disabled; isLoading
\* shows the progress and leaves the button usable, so that a new request
\* can be triggered while one is in flight (spec, section 7)
ButtonEnabled(disabled, isLoading) == ~disabled

\* handleMagicCaption up to its first await
MagicCaptionClick ==
    /\ ptr.phase = "up"
    /\ ButtonEnabled(FALSE, view.isProcessing /\ mode = CAPTION)
    /\ Afford("ai")
    /\ Burn("ai")
    /\ isProcessing' = TRUE
    /\ mode' = CAPTION
    /\ captions' = << >>
    /\ requests' = [ requests EXCEPT !.caption = @ + 1 ]
    /\ sess' = NoSess
    /\ last' = Ev("magicCaption", Null)
    /\ download' = NoDownload
    /\ alerts' = 0
    /\ UNCHANGED <<image, texts, selectedTextId, editPrompt, isDragging,
                   dragStartRef, now, ptr, reading>>
    /\ Flush

\* generateMagicCaptions resolved: setCaptions(suggestions); finally
CaptionResolved(suggestions) ==
    /\ ptr.phase # "click"
    /\ requests.caption > 0
    /\ requests' = [ requests EXCEPT !.caption = @ - 1 ]
    /\ captions' = suggestions
    /\ isProcessing' = FALSE
    /\ sess' = NoSess
    /\ last' = Ev("captionResolved", Null)
    /\ download' = NoDownload
    /\ alerts' = 0
    /\ UNCHANGED <<image, texts, selectedTextId, mode, editPrompt, isDragging,
                   dragStartRef, view, now, ptr, reading, fuel>>

\* fetch or generateMagicCaptions rejected: catch, alert; finally
CaptionRejected ==
    /\ ptr.phase # "click"
    /\ requests.caption > 0
    /\ requests' = [ requests EXCEPT !.caption = @ - 1 ]
    /\ alerts' = 1
    /\ isProcessing' = FALSE
    /\ sess' = NoSess
    /\ last' = Ev("captionRejected", Null)
    /\ download' = NoDownload
    /\ UNCHANGED <<image, texts, selectedTextId, captions, mode, editPrompt,
                   isDragging, dragStartRef, view, now, ptr, reading,
                   fuel>>

\* onChange of the prompt input
PromptChange(v) ==
    /\ ptr.phase = "up"
    /\ v # editPrompt
    /\ Afford("ai")
    /\ editPrompt' = v
    /\ sess' = NoSess
    /\ last' = Ev("prompt", Null)
    /\ download' = NoDownload
    /\ alerts' = 0
    /\ UNCHANGED <<image, texts, selectedTextId, captions, isProcessing, mode,
                   isDragging, dragStartRef, now, ptr, reading, requests, fuel>>
    /\ Flush

\* handleAiEdit up to its first await; the button is disabled without a prompt
AiEditClick ==
    /\ ptr.phase = "up"
    /\ ButtonEnabled(~HasPrompt(view.editPrompt),
                     view.isProcessing /\ view.editPrompt # "")
    /\ HasPrompt(view.editPrompt)
    /\ Afford("ai")
    /\ Burn("ai")
    /\ isProcessing' = TRUE
    /\ requests' = [ requests EXCEPT !.edit = @ + 1 ]
    /\ sess' = NoSess
    /\ last' = Ev("aiEdit", Null)
    /\ download' = NoDownload
    /\ alerts' = 0
    /\ UNCHANGED <<image, texts, selectedTextId, captions, mode, editPrompt,
                   isDragging, dragStartRef, now, ptr, reading>>
    /\ Flush

\* editImageWithAI resolved with an image: setImage, setEditPrompt(''); finally
EditResolved ==
    /\ ptr.phase # "click"
    /\ requests.edit > 0
    /\ requests' = [ requests EXCEPT !.edit = @ - 1 ]
    /\ image' = AiImage
    /\ editPrompt' = ""
    /\ isProcessing' = FALSE
    /\ sess' = NoSess
    /\ last' = Ev("editResolved", Null)
    /\ download' = NoDownload
    /\ alerts' = 0
    /\ UNCHANGED <<texts, selectedTextId, captions, mode, isDragging,
                   dragStartRef, view, now, ptr, reading, fuel>>

\* faulty variant of EditFailed: the busy indicator is not cleared
EditFailedBusy ==
    /\ ptr.phase # "click"
    /\ requests.edit > 0
    /\ requests' = [ requests EXCEPT !.edit = @ - 1 ]
    /\ alerts' = 1
    /\ sess' = NoSess
    /\ last' = Ev("editFailed", Null)
    /\ download' = NoDownload
    /\ UNCHANGED <<image, texts, selectedTextId, captions, isProcessing, mode,
                   editPrompt, isDragging, dragStartRef, view, now, ptr,
                   reading, fuel>>

\* editImageWithAI resolved with null (alert) or rejected (catch, alert); finally
EditFailed ==
    /\ ptr.phase # "click"
    /\ requests.edit > 0
    /\ requests' = [ requests EXCEPT !.edit = @ - 1 ]
    /\ alerts' = 1
    /\ isProcessing' = FALSE
    /\ sess' = NoSess
    /\ last' = Ev("editFailed", Null)
    /\ download' = NoDownload
    /\ UNCHANGED <<image, texts, selectedTextId, captions, mode, editPrompt,
                   isDragging, dragStartRef, view, now, ptr, reading,
                   fuel>>

----------------------------------------------------------------------------
(* Numbers of the exporter: exact quotients n/d, d > 0; d = 0 stands for    *)
(* the IEEE values of a division by zero (n = 1: Infinity, n = -1:          *)
(* -Infinity, n = 0: NaN).                                                   *)

Abs(a) == IF a < 0 THEN -a ELSE a
Sign(a) == IF a > 0 THEN 1 ELSE IF a < 0 THEN -1 ELSE 0

RECURSIVE GCD(_, _)
GCD(a, b) == IF b = 0 THEN a ELSE GCD(b, a % b)

Quot(n, d) ==
    IF d = 0 THEN [ n |-> Sign(n), d |-> 0 ]
    ELSE LET g == GCD(Abs(n), Abs(d))
         IN  [ n |-> (Sign(d) * n) \div g, d |-> Abs(d) \div g ]

\* a / b for integers
Div(a, b) == Quot(a, b)

\* q * k for a quotient q and an integer k
Times(q, k) ==
    IF q.d = 0
    THEN IF q.n = 0 \/ k = 0 THEN [ n |-> 0, d |-> 0 ]
         ELSE [ n |-> q.n * Sign(k), d |-> 0 ]
    ELSE Quot(q.n * k, q.d)

\* q * 0.1
Tenth(q) == IF q.d = 0 THEN q ELSE Quot(q.n, q.d * 10)

IsFinite(q) == q.d # 0

----------------------------------------------------------------------------
(* Exporter: handleDownload *)

\* getBoundingClientRect() of the container and natural size of the <img>
ContainerWidths == { 0, 400 }
ContainerHeights == { 0, 300 }
NaturalWidths == { 0, 800 }
NaturalHeights == { 0, 600 }

\* faulty variant of drawY: the vertical coordinate is left in container pixels
drawYUnscaled(text, ch, nh) == Quot(text.y, 1)

\* scaleX, scaleY: natural size over displayed size
scaleX(dw, nw) == Div(nw, dw)
scaleY(dh, nh) == Div(nh, dh)

\* faulty variant of drawX: the coordinate is truncated to a whole pixel
drawXFloor(text, cw, nw) ==
    IF cw = 0 THEN Times(Div(text.x, cw), nw)
    ELSE Quot((text.x * nw) \div cw, 1)

\* drawX, drawY
drawX(text, cw, nw) == Times(Div(text.x, cw), nw)
drawY(text, ch, nh) == Times(Div(text.y, ch), nh)

\* const fontSize = (text.fontSize / containerRect.width) * canvas.width
drawFontSize(text, cw, nw) == Times(Div(text.fontSize, cw), nw)

\* the two canvas calls of one iteration of texts.forEach
DrawText(text, cw, ch, nw, nh) ==
    << [ op |-> "strokeText", content |-> text.content,
         x |-> drawX(text, cw, nw), y |-> drawY(text, ch, nh),
         font |-> drawFontSize(text, cw, nw), style |-> "black",
         lineWidth |-> Tenth(drawFontSize(text, cw, nw)) ],
       [ op |-> "fillText", content |-> text.content,
         x |-> drawX(text, cw, nw), y |-> drawY(text, ch, nh),
         font |-> drawFontSize(text, cw, nw), style |-> text.color,
         lineWidth |-> Tenth(drawFontSize(text, cw, nw)) ] >>

\* faulty variant of DrawTexts: the annotations are drawn last to first
RECURSIVE DrawTextsReversed(_, _, _, _, _)
DrawTextsReversed(ts, cw, ch, nw, nh) ==
    IF ts = << >> THEN << >>
    ELSE DrawTextsReversed(Tail(ts), cw, ch, nw, nh)
         \o DrawText(Head(ts), cw, ch, nw, nh)

RECURSIVE DrawTexts(_, _, _, _, _)
DrawTexts(ts, cw, ch, nw, nh) ==
    IF ts = << >> THEN << >>
    ELSE DrawText(Head(ts), cw, ch, nw, nh) \o DrawTexts(Tail(ts), cw, ch, nw, nh)

\* the canvas calls of handleDownload and the link it clicks
Exported(ts, cw, ch, nw, nh) ==
    [ made |-> TRUE, width |-> nw, height |-> nh,
      cw |-> cw, ch |-> ch,
      calls |-> << [ op |-> "drawImage", x |-> 0, y |-> 0 ] >>
                \o DrawTexts(ts, cw, ch, nw, nh) ]

\* onClick of Export Meme; texts is the collection of the render
handleDownload(cw, ch, nw, nh) ==
    /\ ptr.phase = "up"
    /\ Afford("export")
    /\ Burn("export")
    /\ download' = Exported(view.texts, cw, ch, nw, nh)
    /\ sess' = NoSess
    /\ last' = Ev("download", Null)
    /\ alerts' = 0
    /\ UNCHANGED <<image, texts, selectedTextId, captions, isProcessing, mode,
                   editPrompt, isDragging, dragStartRef, view, now, ptr,
                   reading, requests>>

----------------------------------------------------------------------------
(* Next-state relation *)

Next ==
    \/ Render
    \/ \E dt \in Elapsed : AddTextClick(dt)
    \/ \E k \in SuggestionChoices, dt \in Elapsed : SuggestionClick(k, dt)
    \/ ClosePanel
    \/ \E v \in TypedContent : ContentChange(v)
    \/ \E v \in PickedColors : ColorChange(v)
    \/ \E i \in 1..MaxTexts, p \in DownPoints : MouseDownText(i, p)
    \/ \E i \in 1..MaxTexts, p \in DownPoints : MouseDownOther(i, p)
    \/ \E i \in 1..MaxTexts, p \in DownPoints : MouseDownDelete(i, p)
    \/ \E i \in 1..MaxTexts : MouseDownPlus(i)
    \/ \E i \in 1..MaxTexts : MouseDownMinus(i)
    \/ MouseDownEmpty
    \/ \E p \in Points : MouseMoveDrag(p)
    \/ MouseMoveIdle
    \/ MouseUp
    \/ MouseLeave
    \/ ClickDelete
    \/ \E i \in 1..MaxTexts : KeyDelete(i)
    \/ ClickContainer
    \/ \E f \in Files : UploadChange(f)
    \/ \E f \in Files : ReaderOnload(f)
    \/ \E k \in TemplateChoices : TemplateClick(k)
    \/ \E dt \in Elapsed : RandomClick(dt)
    \/ MagicCaptionClick
    \/ \E s \in { Suggestions, << >> } : CaptionResolved(s)
    \/ CaptionRejected
    \/ \E v \in TypedPrompts : PromptChange(v)
    \/ AiEditClick
    \/ EditResolved
    \/ EditFailed
    \/ \E cw \in ContainerWidths, ch \in ContainerHeights,
          nw \in NaturalWidths, nh \in NaturalHeights :
            handleDownload(cw, ch, nw, nh)

Spec == Init /\ [][Next]_vars

SpecFont == InitFont /\ [][Next]_vars

SpecDrag == InitDrag /\ [][Next]_vars

SpecAi == InitAi /\ [][Next]_vars

----------------------------------------------------------------------------
(* The conversion of handleDownload on its own: one annotation at a point   *)
(* a drag can reach, exported once for each container and natural size      *)

GeomXs == { -50, 0, 100, 333 }
GeomYs == { 0, 150, 299 }
GeomContainerWidths == { 0, 300, 400 }
GeomContainerHeights == { 225, 300 }
GeomNaturalWidths == { 500, 800 }
GeomNaturalHeights == { 375, 600 }

\* the annotation added at time 0 and dragged to (x, y)
TextAt(x, y) == [ NewText(DefaultContent, 0) EXCEPT !.x = x, !.y = y ]

InitGeom ==
    \E x \in GeomXs, y \in GeomYs :
        /\ image = InitialImage
        /\ texts = << TextAt(x, y) >>
        /\ selectedTextId = Null
        /\ captions = << >>
        /\ isProcessing = FALSE
        /\ mode = CAPTION
        /\ editPrompt = ""
        /\ isDragging = FALSE
        /\ dragStartRef = NullRef
        /\ view = Snapshot(InitialImage, << TextAt(x, y) >>, Null, << >>,
                           FALSE, "", FALSE)
        /\ now = 0
        /\ ptr = Idle
        /\ reading = {}
        /\ requests = [ caption |-> 0, edit |-> 0 ]
        /\ alerts = 0
        /\ download = NoDownload
        /\ sess = NoSess
        /\ last = Ev("init", Null)
        /\ fuel = Fuel(1, Costs(1, 1, 1, 1, 1, 1))

NextGeom ==
    \E cw \in GeomContainerWidths, ch \in GeomContainerHeights,
       nw \in GeomNaturalWidths, nh \in GeomNaturalHeights :
        handleDownload(cw, ch, nw, nh)

SpecGeom == InitGeom /\ [][NextGeom]_vars

----------------------------------------------------------------------------
(* Properties *)

Range(ts) == 1..Len(ts)

\* the value a step of d from size v must produce
Clamped(v) ==
    IF v > MaxFontSize THEN MaxFontSize
    ELSE IF v < MinFontSize THEN MinFontSize ELSE v

Stepped == IF last.op = "plus" THEN last.read + FontStep ELSE last.read - FontStep

\* C1: every annotation of the collection has fontSize within [12,120] in
\* every reachable state, and after an A+ or A- press the annotations with the
\* pressed id have the size read by the handler plus or minus 4, clamped to
\* the bound it would pass (the step is applied, not rejected).
C1_FontSizeClamped ==
    /\ \A i \in Range(texts) :
          texts[i].fontSize \in MinFontSize..MaxFontSize
    /\ last.op \in { "plus", "minus" } =>
          \A i \in Range(texts) :
              texts[i].id = last.id => texts[i].fontSize = Clamped(Stepped)

\* an A- press on an annotation rendered at 12 has left it at 12
C1_Witness ==
    /\ last.op = "minus"
    /\ last.read = MinFontSize
    /\ \E i \in Range(texts) :
          texts[i].id = last.id /\ texts[i].fontSize = MinFontSize

Present(id) == \E i \in Range(texts) : texts[i].id = id

\* C2: every change of the base image reference leaves the annotation
\* collection empty.
C2_ImageChangeClears ==
    [][ image' # image => texts' = << >> ]_vars

\* C3: the reset performed when an uploaded image is loaded yields an empty
\* collection and selection none.
C3_ClearResets ==
    last.op = "onload" => texts = << >> /\ selectedTextId = Null

\* C4: the selection is none or the id of an annotation of the collection.
C4_SelectionPresent ==
    selectedTextId = Null \/ Present(selectedTextId)

\* C5: after select(id) with an id that is not in the collection the selection
\* is none.
C5_SelectAbsentIsNone ==
    last.op \in { "mouseDownText", "mouseDownDelete" } /\ ~Present(last.arg)
        => selectedTextId = Null

\* C6: Add Text or a caption suggestion appends exactly one annotation at the
\* end, with the chosen content, position (400,300), fontSize 40 and color
\* #FFFFFF; it becomes the selection and the earlier annotations are unchanged.
C6_AddAppendsOne ==
    [][ last'.op \in { "addText", "suggestion" } =>
          /\ Len(texts') = Len(texts) + 1
          /\ \A i \in Range(texts) : texts'[i] = texts[i]
          /\ texts'[Len(texts')].content = last'.arg
          /\ texts'[Len(texts')].x = 400
          /\ texts'[Len(texts')].y = 300
          /\ texts'[Len(texts')].fontSize = 40
          /\ texts'[Len(texts')].color = "#FFFFFF"
          /\ selectedTextId' = texts'[Len(texts')].id ]_vars

\* the second of a 3-item caption list was chosen with one annotation present
C6_Witness ==
    /\ last.op = "suggestion"
    /\ last.arg = Suggestions[2]
    /\ Len(view.captions) = 3
    /\ Len(texts) = 2
    /\ texts[2].content = Suggestions[2]
    /\ selectedTextId = texts[2].id

\* C7: no two annotations of the collection share an id.
C7_IdsUnique ==
    \A i, j \in Range(texts) : i # j => texts[i].id # texts[j].id

\* C8: in a drag session made of pointerMove events only, the dragged
\* annotation is at its position at pointerDown plus the sum of the pointer
\* deltas, whether or not a re-render happened between the moves.
C8_DragAccumulates ==
    sess.open =>
        /\ FindIndex(texts, sess.id) # 0
        /\ texts[FindIndex(texts, sess.id)].x = sess.x0 + sess.sx
        /\ texts[FindIndex(texts, sess.id)].y = sess.y0 + sess.sy

\* C9: a pointerDown on an annotation immediately followed by pointerUp
\* leaves the position of every annotation unchanged.
C9_ZeroMoveKeepsPositions ==
    sess.open /\ sess.moves = 0 =>
        /\ Len(texts) = Len(sess.at)
        /\ \A i \in Range(texts) :
              texts[i].x = sess.at[i].x /\ texts[i].y = sess.at[i].y

\* the pointer was released right after a press on an annotation
C9_Witness ==
    /\ last.op = "mouseUp"
    /\ sess.open /\ sess.ended /\ sess.moves = 0
    /\ Len(texts) = 2

Whole(k) == [ n |-> k, d |-> 1 ]

\* C10: with positive container and natural sizes the exporter draws every
\* annotation (outline and fill) at (x*nw/cw, y*nh/ch) with font size
\* fontSize*nw/cw; container 400x300, natural 800x600, position (100,150),
\* fontSize 40 gives (200,300) and 80.
C10_ExportMapping ==
    download.made /\ download.cw > 0 /\ download.ch > 0
                  /\ download.width > 0 /\ download.height > 0 =>
        /\ Len(download.calls) = 1 + 2 * Len(view.texts)
        /\ \A i \in Range(view.texts) : \A c \in { 2 * i, 2 * i + 1 } :
              /\ download.calls[c].x.d * view.texts[i].x * download.width
                    = download.calls[c].x.n * download.cw
              /\ download.calls[c].y.d * view.texts[i].y * download.height
                    = download.calls[c].y.n * download.ch
              /\ download.calls[c].font.d * view.texts[i].fontSize * download.width
                    = download.calls[c].font.n * download.cw
              /\ download.calls[c].x.d > 0
              /\ download.calls[c].y.d > 0
              /\ download.calls[c].font.d > 0
              /\ ( /\ download.cw = 400 /\ download.ch = 300
                   /\ download.width = 800 /\ download.height = 600
                   /\ view.texts[i].x = 100 /\ view.texts[i].y = 150
                   /\ view.texts[i].fontSize = 40 )
                 => /\ download.calls[c].x = Whole(200)
                    /\ download.calls[c].y = Whole(300)
                    /\ download.calls[c].font = Whole(80)

\* the scenario of the claim was exported
C10_Witness ==
    /\ download.made
    /\ download.cw = 400 /\ download.ch = 300
    /\ download.width = 800 /\ download.height = 600
    /\ \E i \in Range(view.texts) :
          /\ view.texts[i].x = 100 /\ view.texts[i].y = 150
          /\ view.texts[i].fontSize = 40
          /\ download.calls[2 * i + 1].op = "fillText"
          /\ download.calls[2 * i + 1].x = Whole(200)

\* C11: an export invoked while the natural size of the image is unavailable
\* (0) ends in a reported failure and clicks no download link; no raster of
\* zero width or height is ever produced.
C11_ExportNeedsImage ==
    /\ download.made => download.width > 0 /\ download.height > 0
    /\ last.op = "download" /\ ~download.made => alerts > 0

\* C12: when an AI call fails (caption generation rejected, image edit
\* rejected or resolved without an image) the step that handles the failure
\* leaves image, annotations and selection as they are, raises a notice and
\* clears isProcessing; the step that starts the call leaves them as well.
C12_AiFailureKeepsState ==
    [][ /\ last'.op \in { "magicCaption", "aiEdit", "captionRejected", "editFailed" }
            => image' = image /\ texts' = texts /\ selectedTextId' = selectedTextId
        /\ last'.op \in { "captionRejected", "editFailed" }
            => alerts' > 0 /\ isProcessing' = FALSE ]_vars

\* an image edit has failed while an annotation was selected
C12_Witness ==
    /\ last.op = "editFailed"
    /\ alerts > 0
    /\ ~isProcessing
    /\ texts # << >>
    /\ Present(selectedTextId)

\* q / r for quotients
Over(q, r) ==
    IF q.d = 0
    THEN IF r.d = 0 THEN [ n |-> 0, d |-> 0 ]
         ELSE [ n |-> q.n * (IF r.n < 0 THEN -1 ELSE 1), d |-> 0 ]
    ELSE IF r.d = 0 THEN Quot(0, 1)
    ELSE Quot(q.n * r.d, q.d * r.n)

C14_ReleaseEndsDrag ==
    [][ /\ last'.op \in { "mouseUp", "mouseLeave" }
            => isDragging' = FALSE /\ dragStartRef' = NullRef
        /\ ~isDragging /\ last'.op \in { "mouseMove", "mouseMoveIdle" }
            => texts' = texts ]_vars

\* a move after the pointer left the container in the middle of a drag,
\* handled by the closure of the render in which the drag was in progress
C14_Witness ==
    /\ last.op = "mouseMoveIdle"
    /\ ~isDragging
    /\ view.isDragging
    /\ dragStartRef = NullRef
    /\ \E i \in Range(texts) : texts[i].x # DefaultX

\* C15: while a drag is in progress a mousedown on an annotation is ignored:
\* it changes neither the selection (the dragged annotation) nor the last
\* pointer position.
C15_PressIgnoredWhileDragging ==
    [][ isDragging /\ dragStartRef # NullRef /\ last'.op = "mouseDownOther"
            => /\ selectedTextId' = selectedTextId
               /\ dragStartRef' = dragStartRef
               /\ isDragging' ]_vars

\* C16: a mousemove of the drag session opened by a press on annotation A
\* changes the position of A only: the length and order of the collection,
\* the other fields of A and every other annotation stay as they are.
C16_MoveChangesOnlyDragged ==
    [][ last'.op = "mouseMove" /\ sess.open /\ ~sess.ended
            => /\ Len(texts') = Len(texts)
               /\ \A i \in Range(texts) :
                     /\ texts'[i] = [ texts[i] EXCEPT !.x = texts'[i].x,
                                                      !.y = texts'[i].y ]
                     /\ texts'[i] # texts[i] => texts[i].id = sess.id
               /\ \A i, j \in Range(texts) :
                     texts'[i] # texts[i] /\ texts'[j] # texts[j] => i = j ]_vars

\* C17: a mousedown on annotation A selects A, A is still selected after the
\* release and the click that completes the gesture, and a click resets the
\* selection to none only when it is on the empty container area.
C17_ClickOnTextKeepsSelection ==
    [][ /\ last'.op = "mouseDownText" => selectedTextId' = last'.arg
        /\ last'.op = "click" /\ ptr.target = "text"
            => selectedTextId' = ptr.id
        /\ last'.op = "click" /\ selectedTextId # Null /\ selectedTextId' = Null
            => ptr.target = "empty" ]_vars

\* the id handed to removeText by the delete button that is being clicked
RemovedId == IF ptr.phase = "click" THEN ptr.id ELSE view.selectedTextId

\* C18: removing a present id deletes exactly one annotation, the one with
\* that id, and keeps the others and their order; the selection becomes none
\* if it was that id and is unchanged otherwise.
C18_RemoveDeletesOne ==
    [][ last'.op = "delete" /\ Present(RemovedId)
            => /\ \E k \in Range(texts) :
                     /\ texts[k].id = RemovedId
                     /\ texts' = [ i \in 1..(Len(texts) - 1) |->
                                     IF i < k THEN texts[i] ELSE texts[i + 1] ]
               /\ selectedTextId' = IF selectedTextId = RemovedId THEN Null
                                    ELSE selectedTextId ]_vars

\* the steps that call updateText, and the id they hand to it
UpdateOps == { "mouseMove", "content", "color", "plus", "minus" }

\* C19: updateText and removeText called with an id that is not in the
\* collection leave the collection and the selection as they are and raise
\* nothing.
C19_AbsentIdIsNoOp ==
    [][ ( \/ last'.op = "delete" /\ ~Present(RemovedId)
          \/ last'.op \in UpdateOps /\ ~Present(view.selectedTextId) )
            => /\ texts' = texts
               /\ selectedTextId' = selectedTextId
               /\ alerts' = 0 ]_vars

\* the annotations of after are annotations of before, in the order of before
KeepsOrder(before, after) ==
    \E f \in [ Range(after) -> Range(before) ] :
        /\ \A i, j \in Range(after) : i < j => f[i] < f[j]
        /\ \A i \in Range(after) : after[i].id = before[f[i]].id

\* the export draws the image, then outline and fill of each annotation of
\* the collection it was handed, first to last
ExportInOrder ==
    download.made =>
        /\ Len(download.calls) = 1 + 2 * Len(view.texts)
        /\ download.calls[1].op = "drawImage"
        /\ \A i \in Range(view.texts) :
              LET d == DrawText(view.texts[i], download.cw, download.ch,
                                download.width, download.height)
              IN  /\ download.calls[2 * i] = d[1]
                  /\ download.calls[2 * i].op = "strokeText"
                  /\ download.calls[2 * i + 1] = d[2]
                  /\ download.calls[2 * i + 1].op = "fillText"

\* C20: every step either appends one annotation at the end of the
\* collection or keeps the surviving annotations in the order they had, so
\* the collection is in the order of the adds; and the exporter draws the
\* image first and then the annotations in that order, outline before fill.
C20_InsertionOrderIsPaintOrder ==
    /\ []ExportInOrder
    /\ [][ \/ /\ Len(texts') = Len(texts) + 1
              /\ SubSeq(texts', 1, Len(texts)) = texts
           \/ KeepsOrder(texts, texts') ]_vars

\* two annotations, the first dragged away from the second, were exported
C20_Witness ==
    /\ download.made
    /\ download.cw > 0 /\ download.ch > 0
    /\ Len(view.texts) = 2
    /\ view.texts[1].x # view.texts[2].x
    /\ download.calls[2].x # download.calls[4].x
    /\ download.calls[3].x # download.calls[5].x

\* C21: when the container has zero width or height at export time the
\* conversion is skipped: no annotation is drawn at a coordinate or with a
\* font size that comes from a division by zero.
C21_NoDivisionByZero ==
    download.made =>
        \A k \in 2..Len(download.calls) :
            /\ IsFinite(download.calls[k].x)
            /\ IsFinite(download.calls[k].y)
            /\ IsFinite(download.calls[k].font)
            /\ download.cw # 0 /\ download.ch # 0

\* the size a press on A+ or A- gives an annotation of size v
StepOf(op, v) == Clamped(IF op = "plus" THEN v + FontStep ELSE v - FontStep)

\* C22: the press on A+ or A- changes the fontSize of the annotation it
\* belongs to by 4 or to the bound and nothing else in the collection; the
\* press, the release and the click of the gesture leave the selection and
\* the drag state (idle) as they are.
C22_FontStepChangesOnlySize ==
    [][ /\ last'.op \in { "plus", "minus" }
            => /\ Len(texts') = Len(texts)
               /\ \A i \in Range(texts) :
                     /\ texts'[i] = [ texts[i] EXCEPT
                                        !.fontSize = texts'[i].fontSize ]
                     /\ texts[i].id = last'.id
                           => texts'[i].fontSize
                                = StepOf(last'.op, texts[i].fontSize)
                     /\ texts[i].id # last'.id => texts'[i] = texts[i]
               /\ \A i, j \in Range(texts) :
                     texts[i].id = last'.id /\ texts[j].id = last'.id => i = j
        /\ ( \/ last'.op \in { "plus", "minus" }
             \/ /\ ptr.target \in { "plus", "minus" }
                /\ last'.op \in { "mouseUp", "click" } )
            => /\ selectedTextId' = selectedTextId
               /\ isDragging' = FALSE
               /\ dragStartRef' = NullRef ]_vars

\* C23: isProcessing is true exactly while a request started by
\* handleMagicCaption or handleAiEdit has not completed.
C23_BusyWhileInFlight ==
    isProcessing <=> (requests.caption + requests.edit > 0)

====
